---- MODULE Spec2Model ----
(***************************************************************************)
(* A model of make-guardian-ebook.py: the daily batch pipeline that reads  *)
(* the index page, fetches every article through the on-disk cache,        *)
(* renders one page per article, and then builds the contents document,    *)
(* the NCX navigation document and the OPF manifest.                       *)
(*                                                                         *)
(* A filename is a record [kind, n, ext]: "001.html" is                    *)
(* [kind |-> "page", n |-> 1, ext |-> "html"], "001-thumb.jpg" is          *)
(* [kind |-> "thumb", n |-> 1, ext |-> "jpg"], "ad-<sha1>.gif" is          *)
(* [kind |-> "ad", n |-> <hash>, ext |-> "gif"].  Every filename the       *)
(* script builds holds exactly one dot, so the two regular expressions     *)
(* that split a name (strip from the first dot, keep after the last dot)   *)
(* cut at the same place.                                                  *)
(***************************************************************************)
EXTENDS Naturals, Sequences, FiniteSets, TLC

\* ------------------------------------------------------------------ bounds

\* The longest index page (number of links) that is explored with every
\* answer of the content API; with the everyday answers alone the index may
\* be one link longer.
MaxLinks == 2

\* ------------------------------------------------------------ input domain

Sections == {"A", "B"}

\* Article URLs of the index page that match the source-URL pattern.
ApiUrls == {"u1", "u2"}

\* A link whose href does not match the pattern of line 262.
BadUrl == "elsewhere"

\* The links an index page may hold: (section, href, link text).
Links ==
    [section : Sections, url : ApiUrls, text : {"Link text"}]
      \cup [section : Sections, url : {BadUrl}, text : {"Link text"}]

RECURSIVE SeqsUpTo(_, _)
SeqsUpTo(S, n) ==
    IF n = 0 THEN {<<>>}
    ELSE LET shorter == SeqsUpTo(S, n - 1)
         IN  shorter \cup {Append(s, x) : s \in {t \in shorter : Len(t) = n - 1}, x \in S}

\* A body field: present or not, its length in characters, whether it holds
\* the upstream notice, and the <img> elements it embeds, each named by the
\* SHA-1 of the bytes its src serves.
NoBody == [present |-> FALSE, kind |-> "none", notice |-> FALSE, len |-> 0, imgs |-> <<>>]

RealBody(notice, len, imgs) ==
    [present |-> TRUE, kind |-> "real", notice |-> notice, len |-> len, imgs |-> imgs]

\* The length of 'Redistribution rights for this field are unavailable'.
NoticeLen == 52

Absent == ""

\* What a live API request may answer.  code is the HTTP status; the other
\* fields are those of the XML document of a 200 answer.
HttpError(code) ==
    [code |-> code, root |-> "", status |-> "", headline |-> Absent, byline |-> Absent,
     standfirst |-> Absent, thumbnail |-> Absent, body |-> NoBody]

Xml(root, status, headline, byline, standfirst, thumbnail, body) ==
    [code |-> 200, root |-> root, status |-> status, headline |-> headline,
     byline |-> byline, standfirst |-> standfirst, thumbnail |-> thumbnail, body |-> body]

Responses ==
    { HttpError(403), HttpError(404), HttpError(500),
      Xml("html", "", Absent, Absent, Absent, Absent, NoBody),
      Xml("response", "error", Absent, Absent, Absent, Absent, NoBody),
      Xml("response", "ok", Absent, Absent, Absent, Absent, NoBody),
      Xml("response", "ok", "Headline", "A. Writer", "Standfirst", "jpg", RealBody(FALSE, 300, <<1>>)),
      Xml("response", "ok", "Headline", Absent, Absent, Absent, RealBody(FALSE, 40, <<>>)),
      Xml("response", "ok", "Headline", Absent, Absent, "webp", RealBody(FALSE, 300, <<1, 2, 1>>)),
      Xml("response", "ok", "Headline", Absent, Absent, "html", RealBody(FALSE, 40, <<>>)),
      Xml("response", "ok", "Headline", Absent, Absent, Absent, RealBody(TRUE, NoticeLen, <<>>)),
      Xml("response", "ok", "Headline", Absent, Absent, "jpg", RealBody(TRUE, 99, <<>>)),
      Xml("response", "ok", "Headline", Absent, Absent, Absent, RealBody(TRUE, 100, <<>>)),
      Xml("response", "ok", "Headline", Absent, Absent, Absent, RealBody(TRUE, 300, <<2>>)) }

\* The answers of an API that is up and serves or has withdrawn an article.
EverydayAnswers ==
    { HttpError(404),
      Xml("response", "ok", "Headline", "A. Writer", "Standfirst", "jpg", RealBody(FALSE, 300, <<1>>)),
      Xml("response", "ok", "Headline", Absent, Absent, Absent, RealBody(FALSE, 40, <<>>)) }

\* What is out there on the day of the run: the index page the site serves
\* and the answers the content API may give to a live request.
Upstreams ==
    [index : SeqsUpTo(Links, MaxLinks), api : {"any"}]
      \cup [index : SeqsUpTo(Links, MaxLinks + 1), api : {"everyday"}]

AnswersOf(api) == IF api = "any" THEN Responses ELSE EverydayAnswers

\* No file under the cache key.
NoFile == HttpError(0)

\* Python's None where a string is expected (current_section before the loops).
None == "None"

\* ------------------------------------------------------------------- state

VARIABLES
    upstream,                 \* the index page and the API answers of the day
    pc,                       \* the script's position
    rerun,                    \* TRUE in a second run over the same directory
    todayFile,                \* today.html: [exists, links]
    cache,                    \* <sha1(url)>.xml for each API URL, or NoFile
    disk,                     \* the image files that exist in the directory
    pages,                    \* the page documents written so far
    links,                    \* the (section, href, text) triples of the index
    pos,                      \* the link the article loop is at
    page_number,
    art,                      \* the loop's locals after the fetch of one article
    files,
    filename_to_headline,
    filename_to_section,
    filename_to_description,
    filename_to_author,
    current_section,          \* shared by the contents loop and the NCX loop
    contents,                 \* contents.html: the groups <h4> + <ul>
    spine,                    \* the <itemref> idrefs of the spine
    nav,                      \* nav-contents.ncx: the navPoint nodes
    manifest,                 \* the <item> elements of the manifest
    opf,                      \* the OPF document written, or not
    error,                    \* the uncaught exception that ended the run
    events,                   \* network requests, cache hits and sleeps of the last step
    unslept,                  \* a live request was made and no sleep followed yet
    gap                       \* two live requests were made with no sleep between

disk_vars == <<todayFile, cache, disk, pages>>
loop_vars == <<links, pos, page_number, art>>
book_vars == <<files, filename_to_headline, filename_to_section,
               filename_to_description, filename_to_author>>
doc_vars  == <<current_section, contents, spine, nav, manifest, opf>>
net_vars  == <<events, unslept, gap>>
vars == <<upstream, pc, rerun, error, disk_vars, loop_vars, book_vars, doc_vars, net_vars>>

\* --------------------------------------------------------------- filenames

PageFilename(n) == [kind |-> "page", n |-> n, ext |-> "html"]

ThumbFilename(n, ext) == [kind |-> "thumb", n |-> n, ext |-> ext]

AdFilename(hash) == [kind |-> "ad", n |-> hash, ext |-> "gif"]

contents_filename == [kind |-> "contents", n |-> 0, ext |-> "html"]

nav_contents_filename == [kind |-> "nav-contents", n |-> 0, ext |-> "ncx"]

cover_image_filename == [kind |-> "cover-image", n |-> 0, ext |-> "gif"]

masthead_filename == [kind |-> "masthead", n |-> 0, ext |-> "gif"]

\* re.search('\.html$', f)
IsHtml(f) == f.ext = "html"

\* re.sub('\..*$', '', f)
ItemId(f) == [kind |-> f.kind, n |-> f.n]

\* re.sub('^.*\.', '', f)
Extension(f) == f.ext

\* ----------------------------------------------------- the network history

Ev(op, code) == [op |-> op, code |-> code]

IsLive(e) == e.op \in {"net_index", "net_api", "net_thumb", "net_img"}

\* The history variables after the events es, in order.
RECURSIVE Observe(_, _)
Observe(h, es) ==
    IF es = <<>> THEN h
    ELSE LET e == Head(es)
             h1 == IF IsLive(e)
                      THEN [unslept |-> TRUE, gap |-> h.gap \/ h.unslept]
                   ELSE IF e.op = "sleep"
                      THEN [unslept |-> FALSE, gap |-> h.gap]
                   ELSE h
         IN  Observe(h1, Tail(es))

Record(es) ==
    LET h == Observe([unslept |-> unslept, gap |-> gap], es)
    IN  /\ events' = es
        /\ unslept' = h.unslept
        /\ gap' = h.gap

\* ------------------------------------------------------------------- Init

NoArt == [headline |-> Absent, byline |-> Absent, standfirst |-> Absent,
          thumbnail |-> Absent, body |-> NoBody]

NoMap == <<>>

Fresh ==
    /\ pc = "start"
    /\ links = <<>>
    /\ pos = 0
    /\ page_number = 0
    /\ art = NoArt
    /\ files = <<>>
    /\ filename_to_headline = NoMap
    /\ filename_to_section = NoMap
    /\ filename_to_description = NoMap
    /\ filename_to_author = NoMap
    /\ current_section = None
    /\ contents = <<>>
    /\ spine = <<>>
    /\ nav = <<>>
    /\ manifest = <<>>
    /\ opf = [written |-> FALSE, manifest |-> <<>>, spine |-> <<>>, guide |-> <<>>]
    /\ error = "none"
    /\ events = <<>>
    /\ unslept = FALSE
    /\ gap = FALSE

Init ==
    /\ Fresh
    /\ upstream \in Upstreams
    /\ rerun = FALSE
    /\ todayFile = [exists |-> FALSE, links |-> <<>>]
    /\ cache = [u \in ApiUrls |-> NoFile]
    /\ disk = {}
    /\ pages = NoMap

\* ------------------------------------------------- the index page (202-248)

AfterLink(p, ls) == IF p > Len(ls) THEN "contents" ELSE "loop"

FetchIndex ==
    /\ pc = "start"
    /\ LET idx == IF todayFile.exists THEN todayFile.links ELSE upstream.index
       IN  /\ todayFile' = [exists |-> TRUE, links |-> idx]
           /\ links' = idx
           /\ pc' = AfterLink(1, idx)
    /\ Record(IF todayFile.exists THEN <<>> ELSE <<Ev("net_index", 200)>>)
    /\ pos' = 1
    /\ page_number' = 1
    /\ UNCHANGED <<upstream, rerun, error, cache, disk, pages, art, book_vars, doc_vars>>

\* ------------------------------------------- the article loop (249-366)

\* re.search('https?://www\.theguardian\.com/(.*)$', link_url)
MatchesPattern(url) == url \in ApiUrls

SkipLink ==
    /\ pc = "loop"
    /\ ~MatchesPattern(links[pos].url)
    /\ pos' = pos + 1
    /\ pc' = AfterLink(pos + 1, links)
    /\ Record(<<>>)
    /\ UNCHANGED <<upstream, rerun, error, disk_vars, links, page_number, art, book_vars, doc_vars>>

\* Mutant: the cache file is never looked for.
CachedNever(url) == FALSE

\* os.path.exists(filename) in url_to_element_tree
Cached(url) == cache[url] # NoFile

\* Mutant: no sleep before ArticleMissing is raised.
FetchEventsNoSleepOn404(live, r) ==
    IF ~live THEN <<Ev("hit", 0)>>
    ELSE IF r.code \in {200, 403} THEN <<Ev("net_api", r.code), Ev("sleep", 0)>>
    ELSE <<Ev("net_api", r.code)>>

\* What url_to_element_tree does on the network for the answer r.
FetchEvents(live, r) ==
    IF ~live THEN <<Ev("hit", 0)>>
    ELSE IF r.code \in {200, 403, 404} THEN <<Ev("net_api", r.code), Ev("sleep", 0)>>
    ELSE <<Ev("net_api", r.code)>>

\* The file under the cache key after the answer r.
Persist(url, live, r) ==
    IF live /\ r.code = 200 THEN [cache EXCEPT ![url] = r] ELSE cache

ApologyBody == [present |-> TRUE, kind |-> "apology", notice |-> FALSE, len |-> 74, imgs |-> <<>>]

ErrorBody == [present |-> TRUE, kind |-> "error", notice |-> FALSE, len |-> 200, imgs |-> <<>>]

\* "if body": neither None nor the empty string
Truthy(body) == body.present /\ body.len > 0

\* Mutant: the length of the body is not looked at.
RestrictedAnyLength(body) == Truthy(body) /\ body.notice

\* line 303
Restricted(body) == Truthy(body) /\ body.notice /\ body.len < 100

Redistribution(body) == IF Restricted(body) THEN ApologyBody ELSE body

\* The loop's locals after a well-formed answer (281-305).
ParseFields(r) ==
    [headline |-> IF r.headline = Absent THEN "[No headline found]" ELSE r.headline,
     byline |-> r.byline, standfirst |-> r.standfirst, thumbnail |-> r.thumbnail,
     body |-> Redistribution(r.body)]

\* The loop's locals in the except clause (307-311).
Placeholder(link) ==
    [headline |-> link.text, byline |-> Absent, standfirst |-> Absent,
     thumbnail |-> Absent, body |-> ErrorBody]

\* Mutant: the except clause catches ArticleAccessDenied alone.
OutcomeOnly403(r) ==
    IF r.code = 403 THEN "placeholder"
    ELSE IF r.code # 200 THEN "Exception"
    ELSE IF r.root # "response" THEN "SystemExit"
    ELSE IF r.status # "ok" THEN "skip"
    ELSE "page"

\* Mutant: the status of the response is not looked at.
OutcomeNoSkip(r) ==
    IF r.code \in {403, 404} THEN "placeholder"
    ELSE IF r.code # 200 THEN "Exception"
    ELSE IF r.root # "response" THEN "SystemExit"
    ELSE "page"

\* How the try block of one link ends.
Outcome(r) ==
    IF r.code \in {403, 404} THEN "placeholder"
    ELSE IF r.code # 200 THEN "Exception"
    ELSE IF r.root # "response" THEN "SystemExit"
    ELSE IF r.status # "ok" THEN "skip"
    ELSE "page"

FetchArticle ==
    /\ pc = "loop"
    /\ MatchesPattern(links[pos].url)
    /\ LET url == links[pos].url
           live == ~Cached(url)
       IN  \E r \in (IF live THEN AnswersOf(upstream.api) ELSE {cache[url]}) :
             /\ cache' = Persist(url, live, r)
             /\ Record(FetchEvents(live, r))
             /\ CASE Outcome(r) = "placeholder" ->
                       /\ art' = Placeholder(links[pos])
                       /\ pc' = "render"
                       /\ UNCHANGED <<pos, error>>
                  [] Outcome(r) = "page" ->
                       /\ art' = ParseFields(r)
                       /\ pc' = "render"
                       /\ UNCHANGED <<pos, error>>
                  [] Outcome(r) = "skip" ->
                       /\ pos' = pos + 1
                       /\ pc' = AfterLink(pos + 1, links)
                       /\ UNCHANGED <<art, error>>
                  [] OTHER ->
                       /\ pc' = "aborted"
                       /\ error' = Outcome(r)
                       /\ UNCHANGED <<pos, art>>
    /\ UNCHANGED <<upstream, rerun, todayFile, disk, pages, links, page_number, book_vars, doc_vars>>

\* The thumbnail of one page (323-330), from the state st of the iteration.
ThumbStep(st, n, ext) ==
    LET f == ThumbFilename(n, ext)
    IN  [disk |-> st.disk \cup {f},
         files |-> Append(st.files, f),
         events |-> IF f \in st.disk THEN st.events
                    ELSE Append(st.events, Ev("net_thumb", 200)),
         srcs |-> st.srcs]

\* Mutant: the image is appended to files whether or not it is on disk.
ImageStepAlwaysAppend(st, hash) ==
    LET f == AdFilename(hash)
    IN  [disk |-> st.disk \cup {f},
         files |-> Append(st.files, f),
         events |-> Append(st.events, Ev("net_img", 200)),
         srcs |-> Append(st.srcs, f)]

\* One <img> of the body (335-343).
ImageStep(st, hash) ==
    LET f == AdFilename(hash)
    IN  [disk |-> st.disk \cup {f},
         files |-> IF f \in st.disk THEN st.files ELSE Append(st.files, f),
         events |-> Append(st.events, Ev("net_img", 200)),
         srcs |-> Append(st.srcs, f)]

RECURSIVE ImageLoop(_, _)
ImageLoop(st, imgs) ==
    IF imgs = <<>> THEN st ELSE ImageLoop(ImageStep(st, Head(imgs)), Tail(imgs))

\* strip_html on the plain-text values of the model: "" for None and for "".
strip_html(s) == IF s = Absent THEN "" ELSE s

RenderPage ==
    /\ pc = "render"
    /\ LET page_filename == PageFilename(page_number)
           st0 == [disk |-> disk, files |-> files, events |-> <<>>, srcs |-> <<>>]
           st1 == IF art.thumbnail # Absent
                     THEN ThumbStep(st0, page_number, art.thumbnail) ELSE st0
           st2 == IF Truthy(art.body) THEN ImageLoop(st1, art.body.imgs) ELSE st1
           doc == [headline |-> art.headline,
                   section |-> links[pos].section,
                   thumb |-> art.thumbnail,
                   body |-> art.body,
                   srcs |-> st2.srcs]
       IN  /\ disk' = st2.disk
           /\ Record(st2.events)
           /\ pages' = (page_filename :> doc) @@ pages
           /\ filename_to_headline' = (page_filename :> strip_html(art.headline)) @@ filename_to_headline
           /\ filename_to_section' = (page_filename :> links[pos].section) @@ filename_to_section
           /\ filename_to_description' = (page_filename :> strip_html(art.standfirst)) @@ filename_to_description
           /\ filename_to_author' = (page_filename :> strip_html(art.byline)) @@ filename_to_author
           /\ files' = Append(st2.files, page_filename)
    /\ page_number' = page_number + 1
    /\ pos' = pos + 1
    /\ pc' = AfterLink(pos + 1, links)
    /\ art' = NoArt
    /\ UNCHANGED <<upstream, rerun, error, todayFile, cache, links, doc_vars>>

\* ------------------------------------ contents.html and the spine (385-422)

\* Mutant: current_section is not assigned in the loop.
ContentsStepNoAssign(acc, f) ==
    IF acc.error # "none" \/ ~IsHtml(f) THEN acc
    ELSE IF f \notin DOMAIN filename_to_section THEN [acc EXCEPT !.error = "KeyError"]
    ELSE LET section_for_this_file == filename_to_section[f]
             opened == IF acc.current_section # section_for_this_file
                          THEN Append(acc.groups,
                                      [heading |-> section_for_this_file, items |-> <<>>])
                          ELSE acc.groups
             li == [href |-> f, text |-> filename_to_headline[f]]
         IN  [groups |-> [opened EXCEPT ![Len(opened)].items = Append(@, li)],
              spine |-> Append(acc.spine, ItemId(f)),
              current_section |-> acc.current_section,
              error |-> "none"]

\* Mutant: the itemref is added inside the "if", once per heading.
ContentsStepItemrefPerHeading(acc, f) ==
    IF acc.error # "none" \/ ~IsHtml(f) THEN acc
    ELSE IF f \notin DOMAIN filename_to_section THEN [acc EXCEPT !.error = "KeyError"]
    ELSE LET section_for_this_file == filename_to_section[f]
             new == acc.current_section # section_for_this_file
             opened == IF new
                          THEN Append(acc.groups,
                                      [heading |-> section_for_this_file, items |-> <<>>])
                          ELSE acc.groups
             li == [href |-> f, text |-> filename_to_headline[f]]
         IN  [groups |-> [opened EXCEPT ![Len(opened)].items = Append(@, li)],
              spine |-> IF new THEN Append(acc.spine, ItemId(f)) ELSE acc.spine,
              current_section |-> section_for_this_file,
              error |-> "none"]

\* One turn of the loop of lines 401-412 over the file f.
ContentsStep(acc, f) ==
    IF acc.error # "none" \/ ~IsHtml(f) THEN acc
    ELSE IF f \notin DOMAIN filename_to_section THEN [acc EXCEPT !.error = "KeyError"]
    ELSE LET section_for_this_file == filename_to_section[f]
             opened == IF acc.current_section # section_for_this_file
                          THEN Append(acc.groups,
                                      [heading |-> section_for_this_file, items |-> <<>>])
                          ELSE acc.groups
             li == [href |-> f, text |-> filename_to_headline[f]]
         IN  [groups |-> [opened EXCEPT ![Len(opened)].items = Append(@, li)],
              spine |-> Append(acc.spine, ItemId(f)),
              current_section |-> section_for_this_file,
              error |-> "none"]

RECURSIVE ContentsLoop(_, _)
ContentsLoop(acc, fs) ==
    IF fs = <<>> THEN acc ELSE ContentsLoop(ContentsStep(acc, Head(fs)), Tail(fs))

BuildContents ==
    /\ pc = "contents"
    /\ LET acc == ContentsLoop([groups |-> <<>>,
                                spine |-> <<ItemId(contents_filename)>>,
                                current_section |-> current_section,
                                error |-> "none"], files)
       IN  /\ spine' = acc.spine
           /\ current_section' = acc.current_section
           /\ IF acc.error = "none"
                 THEN /\ contents' = acc.groups
                      /\ filename_to_headline' =
                            (contents_filename :> "Table of Contents") @@ filename_to_headline
                      /\ pc' = "ncx"
                      /\ UNCHANGED error
                 ELSE /\ pc' = "aborted"
                      /\ error' = acc.error
                      /\ UNCHANGED <<contents, filename_to_headline>>
    /\ Record(<<>>)
    /\ UNCHANGED <<upstream, rerun, disk_vars, loop_vars, files, filename_to_section,
                   filename_to_description, filename_to_author, nav, manifest, opf>>

\* ------------------------------------------------ nav-contents.ncx (425-521)

NavPoint(class, id, playOrder, parent, src, label, description, author) ==
    [class |-> class, id |-> id, playOrder |-> playOrder, parent |-> parent,
     src |-> src, label |-> label, description |-> description, author |-> author]

\* Line 462: the top node; parent 0 is the navMap.
nav_point_periodical ==
    NavPoint("periodical", "periodical", 0, 0, contents_filename,
             filename_to_headline[contents_filename], "", "")

\* Mutant: the counter is not advanced.
SamePlayOrder(i) == i

\* The playOrder of the node created after one with playOrder i (488, 511).
NextPlayOrder(i) == i + 1

\* One turn of the loop of lines 475-511 over the page f.  acc.section is the
\* place in acc.nodes of nav_point_section.
NcxStep(acc, f) ==
    LET section_for_this_file == filename_to_section[f]
        new == acc.current_section # section_for_this_file
        nodes1 == IF new
                     THEN Append(acc.nodes,
                                 NavPoint("section", section_for_this_file, acc.i, 1, f,
                                          section_for_this_file, "", ""))
                     ELSE acc.nodes
        section1 == IF new THEN Len(nodes1) ELSE acc.section
        i1 == IF new THEN NextPlayOrder(acc.i) ELSE acc.i
    IN  [nodes |-> Append(nodes1,
                          NavPoint("article", ItemId(f), i1, section1, f,
                                   filename_to_headline[f], filename_to_description[f],
                                   filename_to_author[f])),
         i |-> NextPlayOrder(i1),
         section |-> section1,
         current_section |-> section_for_this_file]

RECURSIVE NcxLoop(_, _)
NcxLoop(acc, fs) ==
    IF fs = <<>> THEN acc ELSE NcxLoop(NcxStep(acc, Head(fs)), Tail(fs))

\* Line 472
nav_contents_files == SelectSeq(files, IsHtml)

\* current_section as the NCX loop finds it (it is the contents loop's variable,
\* and nothing assigns it between the two loops).
NcxStartSection == current_section

BuildNcx ==
    /\ pc = "ncx"
    /\ LET acc == NcxLoop([nodes |-> <<nav_point_periodical>>, i |-> 1, section |-> 1,
                           current_section |-> NcxStartSection], nav_contents_files)
       IN  /\ nav' = acc.nodes
           /\ current_section' = acc.current_section
    /\ pc' = "manifest"
    /\ Record(<<>>)
    /\ UNCHANGED <<upstream, rerun, error, disk_vars, loop_vars, book_vars,
                   contents, spine, manifest, opf>>

\* --------------------------------------------------- the manifest (525-573)

\* Mutant: an unlisted extension gets a default type instead of the exception.
extension_to_media_type_default(extension) ==
    CASE extension = "gif" -> "image/gif"
      [] extension = "html" -> "application/xhtml+xml"
      [] extension \in {"jpg", "jpeg"} -> "image/jpeg"
      [] extension = "png" -> "image/png"
      [] extension = "ncx" -> "application/x-dtbncx+xml"
      [] OTHER -> "application/octet-stream"

extension_to_media_type(extension) ==
    CASE extension = "gif" -> "image/gif"
      [] extension = "html" -> "application/xhtml+xml"
      [] extension \in {"jpg", "jpeg"} -> "image/jpeg"
      [] extension = "png" -> "image/png"
      [] extension = "ncx" -> "application/x-dtbncx+xml"
      [] OTHER -> "raise"

\* One turn of the loop of lines 567-573.
ManifestStep(acc, f) ==
    IF acc.error # "none" THEN acc
    ELSE IF extension_to_media_type(Extension(f)) = "raise"
       THEN [acc EXCEPT !.error = "Unknown extension"]
    ELSE [acc EXCEPT !.items = Append(@, [id |-> ItemId(f),
                                          media_type |-> extension_to_media_type(Extension(f)),
                                          href |-> f])]

RECURSIVE ManifestLoop(_, _)
ManifestLoop(acc, fs) ==
    IF fs = <<>> THEN acc ELSE ManifestLoop(ManifestStep(acc, Head(fs)), Tail(fs))

\* Lines 525-528
WithAuxiliaries(fs) ==
    fs \o <<contents_filename, nav_contents_filename, cover_image_filename, masthead_filename>>

BuildManifest ==
    /\ pc = "manifest"
    /\ files' = WithAuxiliaries(files)
    /\ LET acc == ManifestLoop([items |-> <<>>, error |-> "none"], files')
       IN  /\ manifest' = acc.items
           /\ error' = acc.error
           /\ pc' = IF acc.error = "none" THEN "guide" ELSE "aborted"
    /\ Record(<<>>)
    /\ UNCHANGED <<upstream, rerun, disk_vars, loop_vars, filename_to_headline,
                   filename_to_section, filename_to_description, filename_to_author,
                   current_section, contents, spine, nav, opf>>

\* ------------------------------------- the guide and the OPF file (575-592)

NotWritten == [written |-> FALSE, manifest |-> <<>>, spine |-> <<>>, guide |-> <<>>]

\* Mutant: the headline of 001.html is looked up with a default, so that a
\* missing first page does not raise.
WriteOpfDefaultTitle ==
    /\ pc = "guide"
    /\ opf' = [written |-> TRUE, manifest |-> manifest, spine |-> spine,
               guide |-> << [type |-> "toc", title |-> "Table of Contents",
                             href |-> contents_filename],
                            [type |-> "text",
                             title |-> IF PageFilename(1) \in DOMAIN filename_to_headline
                                          THEN filename_to_headline[PageFilename(1)] ELSE "",
                             href |-> PageFilename(1)] >>]
    /\ pc' = "done"
    /\ Record(<<>>)
    /\ UNCHANGED <<upstream, rerun, error, disk_vars, loop_vars, book_vars,
                   current_section, contents, spine, nav, manifest>>

WriteOpf ==
    /\ pc = "guide"
    /\ IF PageFilename(1) \in DOMAIN filename_to_headline
          THEN /\ opf' = [written |-> TRUE, manifest |-> manifest, spine |-> spine,
                          guide |-> << [type |-> "toc", title |-> "Table of Contents",
                                        href |-> contents_filename],
                                       [type |-> "text",
                                        title |-> filename_to_headline[PageFilename(1)],
                                        href |-> PageFilename(1)] >>]
               /\ pc' = "done"
               /\ UNCHANGED error
          ELSE /\ pc' = "aborted"
               /\ error' = "KeyError"
               /\ UNCHANGED opf
    /\ Record(<<>>)
    /\ UNCHANGED <<upstream, rerun, disk_vars, loop_vars, book_vars,
                   current_section, contents, spine, nav, manifest>>

\* ------------------------- a second run on the same day, in the same directory

ReRun ==
    /\ pc \in {"done", "aborted"}
    /\ ~rerun
    /\ rerun' = TRUE
    /\ pc' = "start"
    /\ links' = <<>>
    /\ pos' = 0
    /\ page_number' = 0
    /\ art' = NoArt
    /\ files' = <<>>
    /\ filename_to_headline' = NoMap
    /\ filename_to_section' = NoMap
    /\ filename_to_description' = NoMap
    /\ filename_to_author' = NoMap
    /\ current_section' = None
    /\ contents' = <<>>
    /\ spine' = <<>>
    /\ nav' = <<>>
    /\ manifest' = <<>>
    /\ opf' = NotWritten
    /\ error' = "none"
    /\ events' = <<>>
    /\ unslept' = FALSE
    /\ gap' = FALSE
    /\ UNCHANGED <<upstream, disk_vars>>

Next ==
    \/ FetchIndex
    \/ SkipLink
    \/ FetchArticle
    \/ RenderPage
    \/ BuildContents
    \/ BuildNcx
    \/ BuildManifest
    \/ WriteOpf
    \/ ReRun

Spec == Init /\ [][Next]_vars

\* ----------------------------------------------------------------- claims

\* The href of the link the article loop is at (pc is "loop" or "render").
LinkUrl == links[pos].url

\* The page files of FileList, in order.
PageFiles == SelectSeq(files, LAMBDA f : f.kind = "page")

\* contents.html has been written in this run (line 422 follows the write).
ContentsWritten == contents_filename \in DOMAIN filename_to_headline

\* nav-contents.ncx has been built in this run.
NavBuilt == nav # <<>>

\* The step is a live article fetch that upstream answered with 403 or 404.
FetchDenied ==
    /\ pc = "loop"
    /\ events' # <<>>
    /\ events'[1] \in {Ev("net_api", 403), Ev("net_api", 404)}

\* C1: a fetch that fails with 403 or 404 does not end the run: the loop goes
\* on to render a page whose headline is the link text and whose body is the
\* error placeholder, the page is appended to FileList under the next page
\* number, and the loop moves on to the next link.
C1_PlaceholderPage ==
    [][ /\ FetchDenied =>
             /\ pc' = "render"
             /\ error' = "none"
             /\ art' = [headline |-> links[pos].text, byline |-> Absent,
                        standfirst |-> Absent, thumbnail |-> Absent, body |-> ErrorBody]
             /\ pos' = pos
        /\ (pc = "render" /\ art.body.kind = "error") =>
             /\ pc' \in {"loop", "contents"}
             /\ error' = "none"
             /\ pos' = pos + 1
             /\ page_number' = page_number + 1
             /\ files' = Append(files, PageFilename(page_number))
             /\ pages'[PageFilename(page_number)].headline = links[pos].text
             /\ pages'[PageFilename(page_number)].body = ErrorBody
             /\ filename_to_headline'[PageFilename(page_number)] = links[pos].text
      ]_vars

\* C1 witness: a first run that ended with two placeholder pages, 001.html and
\* 002.html, both in FileList.
C1_Witness ==
    /\ pc = "done"
    /\ ~rerun
    /\ PageFilename(2) \in DOMAIN pages
    /\ pages[PageFilename(1)].body.kind = "error"
    /\ pages[PageFilename(2)].body.kind = "error"
    /\ PageFiles = <<PageFilename(1), PageFilename(2)>>

\* The body field of the record the loop has just parsed holds the notice.
FetchedNotice ==
    /\ pc = "render"
    /\ cache[LinkUrl] # NoFile
    /\ cache[LinkUrl].body.notice

\* C2 as stated: whenever the fetched body holds the redistribution notice,
\* the body that is rendered is the fixed apology text, whatever its length.
C2_ApologyWhateverLength == FetchedNotice => art.body = ApologyBody

\* C2 as amended: a fetched body that holds the notice and is shorter than 100
\* characters is rendered as the fixed apology text; one of 100 characters or
\* more is rendered as it was fetched; and no page is written with a short
\* notice body.
C2_ApologyWhenShort ==
    /\ (FetchedNotice /\ cache[LinkUrl].body.len < 100) => art.body = ApologyBody
    /\ (FetchedNotice /\ cache[LinkUrl].body.len >= 100) => art.body = cache[LinkUrl].body
    /\ \A f \in DOMAIN pages :
         pages[f].body.notice => pages[f].body.kind = "real" /\ pages[f].body.len >= 100

\* C2 witness: a page was written with the apology text.
C2_Witness ==
    /\ pc = "done"
    /\ pages[PageFilename(1)].body = ApologyBody

\* The places in nodes of the children of node p, in document order.
Kids(nodes, p) ==
    SelectSeq([k \in 1..Len(nodes) |-> k], LAMBDA k : nodes[k].parent = p)

RECURSIVE DocOrderFrom(_, _), DocOrderOfAll(_, _)
\* The subtree of node p in document order (a node, then its children).
DocOrderFrom(nodes, p) == <<p>> \o DocOrderOfAll(nodes, Kids(nodes, p))
DocOrderOfAll(nodes, ps) ==
    IF ps = <<>> THEN <<>>
    ELSE DocOrderFrom(nodes, Head(ps)) \o DocOrderOfAll(nodes, Tail(ps))

SectionNodes == SelectSeq(nav, LAMBDA n : n.class = "section")

\* C3: the navigation document has one section node per maximal run of pages
\* with the same section label (as many as the contents document has
\* headings, with the same labels in the same order), and every article node
\* is a child of the section node of its own run.
C3_SectionPerRun ==
    NavBuilt =>
      /\ Len(SectionNodes) = Len(contents)
      /\ \A k \in 1..Len(contents) : SectionNodes[k].label = contents[k].heading
      /\ \A k \in 1..Len(nav) :
           nav[k].class = "article" =>
             /\ nav[nav[k].parent].class = "section"
             /\ nav[nav[k].parent].label = filename_to_section[nav[k].src]

\* C4: the playOrder values of the navigation document, read in document
\* order over the periodical, section and article nodes together, are
\* 0, 1, 2, ... with no gap and no repeat.
C4_PlayOrderConsecutive ==
    NavBuilt =>
      LET order == DocOrderFrom(nav, 1)
      IN  /\ Len(order) = Len(nav)
          /\ \A k \in 1..Len(order) : nav[order[k]].playOrder = k - 1

\* C4 witness: a navigation document with two section nodes and three
\* article nodes.
C4_Witness ==
    /\ pc = "done"
    /\ Len(SectionNodes) = 2
    /\ Len(SelectSeq(nav, LAMBDA n : n.class = "article")) = 3

\* The closed table of section 4.6.
MediaTypeTable ==
    [gif |-> "image/gif", html |-> "application/xhtml+xml", jpg |-> "image/jpeg",
     jpeg |-> "image/jpeg", png |-> "image/png", ncx |-> "application/x-dtbncx+xml"]

\* Manifest assembly has run (the four auxiliary files end FileList).
ManifestAssembled == files # <<>> /\ files[Len(files)] = masthead_filename

AllMapped == \A k \in 1..Len(files) : files[k].ext \in DOMAIN MediaTypeTable

\* C5: manifest assembly gives every file of FileList, in order, one entry
\* whose content type is that of the table; with a file of any other
\* extension it ends the run with 'Unknown extension' and no OPF document is
\* written.
C5_ManifestByTable ==
    /\ (ManifestAssembled /\ AllMapped) =>
         /\ error # "Unknown extension"
         /\ Len(manifest) = Len(files)
         /\ \A k \in 1..Len(files) :
              manifest[k] = [id |-> [kind |-> files[k].kind, n |-> files[k].n],
                             media_type |-> MediaTypeTable[files[k].ext],
                             href |-> files[k]]
    /\ (ManifestAssembled /\ ~AllMapped) =>
         /\ pc = "aborted"
         /\ error = "Unknown extension"
         /\ ~opf.written
    /\ opf.written => (ManifestAssembled /\ AllMapped /\ opf.manifest = manifest)

\* C5 witness: a thumbnail with an unlisted extension reached manifest
\* assembly and the run ended there.
C5_Witness ==
    /\ pc = "aborted"
    /\ error = "Unknown extension"
    /\ \E k \in 1..Len(files) : files[k].kind = "thumb" /\ files[k].ext = "webp"

RECURSIVE Hrefs(_)
\* The links of the contents document, in document order.
Hrefs(groups) ==
    IF groups = <<>> THEN <<>>
    ELSE [k \in 1..Len(Head(groups).items) |-> Head(groups).items[k].href]
           \o Hrefs(Tail(groups))

\* C6: the contents document holds one heading and list per maximal run of
\* consecutive pages with the same section label: its links are the pages in
\* recorded order, every list is non-empty and holds only pages of its
\* heading's section, and two neighbouring headings differ.
C6_ContentsByAdjacency ==
    ContentsWritten =>
      /\ Hrefs(contents) = PageFiles
      /\ \A g \in 1..Len(contents) :
           /\ contents[g].items # <<>>
           /\ \A k \in 1..Len(contents[g].items) :
                filename_to_section[contents[g].items[k].href] = contents[g].heading
      /\ \A g \in 1..(Len(contents) - 1) : contents[g].heading # contents[g + 1].heading

\* C6 witness: three groups A, B, A: the label A recurs after B and starts a
\* new group.
C6_Witness ==
    /\ pc = "done"
    /\ Len(contents) = 3
    /\ contents[1].heading = "A"
    /\ contents[2].heading = "B"
    /\ contents[3].heading = "A"

\* C7: a file under a cache key is never changed or removed; a fetch of a URL
\* that has one makes no network request and no sleep and parses that file; a
\* fetch answered 403 or 404 writes nothing; a fetch of a URL without a file
\* goes to the network.
C7_CacheIdempotent ==
    [][ /\ \A u \in ApiUrls : cache[u] # NoFile => cache'[u] = cache[u]
        /\ (pc = "loop" /\ MatchesPattern(LinkUrl) /\ cache[LinkUrl] # NoFile) =>
             /\ events' = <<Ev("hit", 0)>>
             /\ unslept' = unslept
             /\ pc' = "render" => art' = ParseFields(cache[LinkUrl])
        /\ FetchDenied => cache' = cache
        /\ (pc = "loop" /\ MatchesPattern(LinkUrl) /\ cache[LinkUrl] = NoFile) =>
             events'[1].op = "net_api"
      ]_vars

\* C7 witness: in a second run, an article is read from the cache file of the
\* first run.
C7_Witness ==
    /\ rerun
    /\ pc = "render"
    /\ events = <<Ev("hit", 0)>>
    /\ art.body.kind = "real"

\* C8 as stated: no two live requests (article API, index page, thumbnail,
\* inline image) follow each other without a sleep between, and a cache hit
\* is followed by no sleep.
C8_SleepAfterEveryRequest ==
    /\ ~gap
    /\ \A k \in 1..Len(events) :
         events[k].op = "hit" => (k = Len(events) \/ events[k + 1].op # "sleep")

\* C8 as amended: every live article API request that is answered 200, 403 or
\* 404 is followed at once by a sleep, and any other answer ends the run; a
\* sleep follows nothing else: not a cache hit, nor the request for the index
\* page, a thumbnail or an inline image.
C8_SleepAfterApiRequest ==
    \A k \in 1..Len(events) :
      /\ (events[k].op = "net_api" /\ events[k].code \in {200, 403, 404}) =>
           (k < Len(events) /\ events[k + 1].op = "sleep")
      /\ (events[k].op = "net_api" /\ events[k].code \notin {200, 403, 404}) =>
           pc = "aborted"
      /\ events[k].op = "sleep" => (k > 1 /\ events[k - 1].op = "net_api")

\* C8 witness: requests have followed each other without a sleep, and the
\* last step was a live article request followed by its sleep.
C8_Witness ==
    /\ gap
    /\ events = <<Ev("net_api", 404), Ev("sleep", 0)>>

\* The link the loop is at is skipped: its href does not match the pattern,
\* or the answer the fetch parsed has a status other than "ok".
LinkSkipped ==
    /\ pc = "loop"
    /\ \/ ~MatchesPattern(LinkUrl)
       \/ /\ cache'[LinkUrl] # NoFile
          /\ cache'[LinkUrl].root = "response"
          /\ cache'[LinkUrl].status # "ok"

\* C9: the page files of FileList are 001.html .. N.html in that order, where
\* N pages have been produced, and the metadata maps hold exactly these
\* pages; a skipped link records nothing and leaves the page number alone;
\* a rendered page takes the next number.
C9_PagesContiguous ==
    [][ /\ pc' # "start" =>
             /\ PageFiles' = [k \in 1..(page_number' - 1) |-> PageFilename(k)]
             /\ DOMAIN filename_to_section' = {PageFilename(k) : k \in 1..(page_number' - 1)}
             /\ DOMAIN filename_to_description' = DOMAIN filename_to_section'
             /\ DOMAIN filename_to_author' = DOMAIN filename_to_section'
             /\ DOMAIN filename_to_headline' \ {contents_filename} = DOMAIN filename_to_section'
        /\ LinkSkipped =>
             /\ UNCHANGED <<book_vars, page_number, pages, disk>>
             /\ pos' = pos + 1
             /\ pc' \in {"loop", "contents"}
        /\ pc = "render" =>
             /\ page_number' = page_number + 1
             /\ files'[Len(files')] = PageFilename(page_number)
      ]_vars

\* C9 witness: a run over three links, the second of them skipped, that
\* recorded 001.html and 002.html.
C9_Witness ==
    /\ pc = "done"
    /\ Len(links) = 3
    /\ ~MatchesPattern(links[2].url)
    /\ PageFiles = <<PageFilename(1), PageFilename(2)>>

\* FileList without the auxiliary files appended at lines 525-528.
ProducedFiles ==
    SelectSeq(files, LAMBDA f : f.kind \in {"page", "thumb", "ad"})

\* C10: the spine is the contents page followed by the .html entries of
\* FileList, each once and in FileList order; no thumbnail, inline image,
\* navigation document, cover or masthead is in it.
C10_SpineIsPages ==
    ContentsWritten =>
      LET docs == SelectSeq(ProducedFiles, LAMBDA f : f.ext = "html")
      IN  /\ spine = <<[kind |-> "contents", n |-> 0]>>
                       \o [k \in 1..Len(docs) |-> [kind |-> docs[k].kind, n |-> docs[k].n]]
          /\ \A k \in 1..Len(spine) : spine[k].kind \in {"contents", "page"}
          /\ opf.written => opf.spine = spine

\* C10 witness: the OPF document was written for a FileList that holds a
\* thumbnail, an inline image and two pages.
C10_Witness ==
    /\ opf.written
    /\ Len(opf.spine) = 3
    /\ \E k \in 1..Len(files) : files[k].kind = "thumb"
    /\ \E k \in 1..Len(files) : files[k].kind = "ad"

\* The article loop has gone through every link of the index.
LoopDone == pc \notin {"start", "loop", "render"} /\ pos = Len(links) + 1

NoRepeat(q) == \A j, k \in 1..Len(q) : q[j] = q[k] => j = k

\* The sequence q starts with the sequence p.
StartsWith(q, p) == Len(p) <= Len(q) /\ \A k \in 1..Len(p) : q[k] = p[k]

\* C12: within a run FileList only grows at its end, no filename occurs in
\* it twice (also when several pages embed the same inline image), and the
\* manifest holds every filename and every item id at most once.
C12_FileListAppendOnly ==
    [][ /\ pc' # "start" => StartsWith(files', files)
        /\ NoRepeat(files')
        /\ NoRepeat([k \in 1..Len(manifest') |-> manifest'[k].href])
        /\ NoRepeat([k \in 1..Len(manifest') |-> manifest'[k].id])
      ]_vars

\* C12 witness: a first run whose two pages embed the same inline image; the
\* OPF document was written and the image is in FileList once.
C12_Witness ==
    /\ pc = "done"
    /\ ~rerun
    /\ PageFiles = <<PageFilename(1), PageFilename(2)>>
    /\ pages[PageFilename(1)].srcs = <<AdFilename(1)>>
    /\ pages[PageFilename(2)].srcs = <<AdFilename(1)>>
    /\ Len(SelectSeq(files, LAMBDA f : f = AdFilename(1))) = 1

\* The image files the page document f refers to.
ImagesOf(f) ==
    {pages[f].srcs[k] : k \in 1..Len(pages[f].srcs)}
      \cup (IF pages[f].thumb = Absent THEN {} ELSE {ThumbFilename(f.n, pages[f].thumb)})

\* C13: at the end of a run every image file a produced page refers to (its
\* thumbnail, its rewritten inline images) is in FileList and in the
\* manifest, also when the file was on disk before the article was processed
\* (a second run over the directory of the first).
C13_PageImagesListed ==
    pc = "done" =>
      \A p \in 1..Len(PageFiles) :
        \A img \in ImagesOf(PageFiles[p]) :
          /\ \E k \in 1..Len(files) : files[k] = img
          /\ \E k \in 1..Len(manifest) : manifest[k].href = img

====
